---- MODULE Spec2Model ----
(***************************************************************************)
(* PIT64 timer driver (drivers/clocksource/timer-microchip-pit64.c).       *)
(* The file holds two variants of the driver: the older one (pit64_*,      *)
(* AT91_* names, lines 1-457) and the current one (mchp_pit64_*, MCHP_*    *)
(* names, lines 459-899).  The variable `variant` says which one is built. *)
(*                                                                         *)
(* Three specifications:                                                   *)
(*   SpecPres     the prescaler solvers as pure functions of their inputs  *)
(*   SpecCounter  the 64-bit register protocol against a counting device   *)
(*   Spec         the lifecycle manager (dt_init) and the registry         *)
(*                                                                         *)
(* TLC's integers are 32-bit: the 2 x 32-bit registers of the device are   *)
(* modelled as 2 x HalfBits bits, all shift / mask arithmetic kept.        *)
(***************************************************************************)
EXTENDS Integers, Sequences, FiniteSets, TLC

\* ------------------------------------------------------------------------
\* Program constants
\* ------------------------------------------------------------------------
AT91_PRES_MAX == 16
MCHP_PRES_MAX == 16
AT91_PIT64_CS_RATE == 2500000
AT91_PIT64_CE_RATE == 2500000
MCHP_PIT64_CS_RATE == 2500000
MCHP_PIT64_CE_RATE == 2500000
HZ == 100

\* Mode register bits and the prescaler field, bits 11..8.
MR_CONT == 1
MR_SMOD == 16
PRES_SHIFT == 256
PRES_FIELD == 16

\* Control register commands, interrupt bits.
CR_START == 1
CR_SWRST == 256
IER_PERIOD == 1
ISR_PERIOD == 1

\* CLOCKSOURCE_MASK(64); sched_clock_register(..., 64, ...)
CLOCKSOURCE_MASK_BITS == 64

\* ------------------------------------------------------------------------
\* Bounds of the model
\* ------------------------------------------------------------------------
\* Width of one half of the 64-bit counter / period value.
HalfBits == 12
\* Device increments explored by SpecCounter.
MaxTicks == 3
\* Completed readCounter calls explored by SpecCounter.
MaxReads == 2
\* dt_init calls explored by Spec.
MaxCalls == 3
\* Device-tree nodes (each with its own register window, clock, irq line).
MaxNodes == 2

HalfMod == 2 ^ HalfBits
U64Mod == HalfMod * HalfMod
LSBMASK == HalfMod - 1
ULLONG_MAX == U64Mod - 1

Variants == {"at91", "mchp"}

\* Input rates tried on the solvers (Hz) and target rates.
PresClkRates ==
    {1, 2, 1250000, 2499999, 2500000, 2500001, 4999999, 5000000, 5000001,
     5000002, 32000000, 32500000, 32500001, 37500000, 37500001, 37500015,
     40000000, 40000001, 40000016, 200000000}
PresMaxRates == {1, 2, 1250000, 2500000, 2500001}

\* ------------------------------------------------------------------------
\* Prescaler solvers
\* ------------------------------------------------------------------------
RECURSIVE pit64_pres_loop(_, _, _)
pit64_pres_loop(clk_rate, max_rate, pres) ==
    IF pres < AT91_PRES_MAX
    THEN IF clk_rate \div pres <= max_rate
         THEN pres
         ELSE pit64_pres_loop(clk_rate, max_rate, pres + 1)
    ELSE pres

\* The divider itself is searched, from 2; the clamp test compares with
\* PRES_MAX + 1, a value the loop never leaves pres at.
pit64_pres_compute(clk_rate, max_rate) ==
    LET pres == pit64_pres_loop(clk_rate, max_rate, 2)
    IN  IF pres = AT91_PRES_MAX + 1 THEN AT91_PRES_MAX ELSE pres

RECURSIVE mchp_pit64_pres_loop(_, _, _)
mchp_pit64_pres_loop(clk_rate, max_rate, pres) ==
    IF pres < MCHP_PRES_MAX
    THEN IF clk_rate \div (pres + 1) <= max_rate
         THEN pres
         ELSE mchp_pit64_pres_loop(clk_rate, max_rate, pres + 1)
    ELSE pres

\* The index pres (divider - 1) is searched, from 0, and the index is
\* what is returned.
mchp_pit64_pres_compute(clk_rate, max_rate) ==
    LET pres == mchp_pit64_pres_loop(clk_rate, max_rate, 0)
    IN  IF pres = MCHP_PRES_MAX THEN MCHP_PRES_MAX - 1 ELSE pres

pres_compute(v, clk_rate, max_rate) ==
    IF v = "at91" THEN pit64_pres_compute(clk_rate, max_rate)
    ELSE mchp_pit64_pres_compute(clk_rate, max_rate)

\* DIV_ROUND_CLOSEST for unsigned operands.
DIV_ROUND_CLOSEST(x, d) == (x + (d \div 2)) \div d

\* A plausible slip: the field placed at bit 4.
PIT64_PRESCALER_bit4(p) == (p % PRES_FIELD) * PRES_FIELD

\* MCHP_PIT64_PRESCALER(p) == MR_PRES & (p << 8): p is (u8)pres - 1 promoted
\* to int, so pres = 0 gives p = -1 and the field reads 15.
PIT64_PRESCALER(p) == (p % PRES_FIELD) * PRES_SHIFT

\* ------------------------------------------------------------------------
\* State
\* ------------------------------------------------------------------------
VARIABLES
    variant,    \* which variant of the driver is built
    \* -- SpecPres: one solver call
    p_pc,       \* "off" | "in" | "out"
    p_clk,      \* clk_rate argument
    p_max,      \* max_rate argument
    p_ret,      \* returned value
    \* -- SpecMode: one call of reset, for the mode word it writes
    r_call,     \* [pc, pres, mode, irq_ena, mr], <<>>: none
    \* -- SpecPhy: one SAMA7G5 USB PHY and the two register maps it writes
    phy,        \* struct sama7g5_usb_phy, the registers and the last
                \* operation, <<>>: none
    \* -- the device(s): registers of each node's PIT64 block
    dev,        \* [Nodes -> device record]
    hwLatch,    \* whether a read of TLSBR snapshots the high word for TMSBR
    \* -- SpecCounter: the register protocol
    c_pc,       \* "off" | "idle" | "msb" (between the two reads of get_period)
    c_first,    \* value of the first register read of the get_period call
                \* in progress (the local lsb)
    c_ret,      \* value returned by the last completed get_period, -1: none
    c_prev,     \* value returned by the one before, -1: none
    c_wr,       \* value passed to the last set_period, -1: none
    c_since,    \* "none" | "written" | "read": set_period, then get_period,
                \* with no device increment since the write
    c_abs,      \* count of the device since power-on, not reduced mod 2^64
    c_t1,       \* c_abs at the low-half read of the last get_period
    c_t2,       \* c_abs at its high-half read
    c_prev_t1,  \* c_abs at the low-half read of the get_period before
    c_torn,     \* the high word changed between the two reads of the last call
    c_prev_torn,
    c_ticks,    \* device increments so far
    c_reads,    \* completed get_period calls so far
    \* -- Spec: lifecycle manager and registry
    data_csd,   \* data.csd: 0 (NULL) or the instance
    data_ced,   \* data.ced: 0 (NULL) or the instance
    heap,       \* [InstIds -> instance record]: kzalloc'ed driver instances
    res,        \* resources held, per node, and the log of the call's
                \* acquisitions and releases
    clkevt_state, \* state the clockevents framework records for the device
    l_pc,       \* position of the dt_init call in progress, "idle": none
    l_node,     \* its node argument
    l_mode,     \* its mode argument
    l_inst,     \* its local csd / ced
    l_rate,     \* its local clk_rate
    l_ret,      \* value the last dt_init call returned
    l_fail,     \* the step at which the last dt_init call failed, "": none
    calls,      \* dt_init calls so far
    wlog,       \* register writes of the handler running or last run
    last_reset, \* arguments of the reset call of that handler, if any
    snap,       \* registry, heap, resources and devices when it was entered
    \* -- SpecEvt: the clock event device's callbacks and interrupt
    suspended,  \* the framework has called .suspend and not yet .resume
    h,          \* the callback last run since dt_init was entered and the
                \* value it returned, <<>>: none
    pre,        \* devices, instances, clocks and state when it was entered
    irq_h       \* the last run of the interrupt handler since the last
                \* callback, <<>>: none

presVars == <<p_pc, p_clk, p_max, p_ret, r_call, phy>>
cntVars == <<c_pc, c_first, c_ret, c_prev, c_wr, c_since, c_abs, c_t1, c_t2,
             c_prev_t1, c_torn, c_prev_torn, c_ticks, c_reads>>
lifeVars == <<data_csd, data_ced, heap, res, clkevt_state, l_pc, l_node,
              l_mode, l_inst, l_rate, l_ret, l_fail, calls, wlog, last_reset,
              snap>>
evtVars == <<suspended, h, pre, irq_h>>
vars == <<variant, presVars, dev, hwLatch, cntVars, lifeVars, evtVars>>

Nodes == 1..MaxNodes

\* ------------------------------------------------------------------------
\* The device: register window of one PIT64 block
\* ------------------------------------------------------------------------
\* Register values after a software reset.
DevResetState ==
    [started |-> FALSE, mr |-> 0, pr_msb |-> 0, pr_lsb |-> 0, imr |-> 0,
     isr |-> 0, cnt |-> 0, tmsb |-> 0]

HasBit(val, bit) == (val \div bit) % 2 = 1

\* Effect of writel_relaxed(val, base + reg) on the block.
DevWrite(d, reg, val) ==
    CASE reg = "CR" ->
            IF HasBit(val, CR_SWRST) THEN DevResetState
            ELSE IF HasBit(val, CR_START) THEN [d EXCEPT !.started = TRUE]
            ELSE d
      [] reg = "MR" -> [d EXCEPT !.mr = val]
      [] reg = "MSB_PR" -> [d EXCEPT !.pr_msb = val]
      [] reg = "LSB_PR" -> [d EXCEPT !.pr_lsb = val]
      [] reg = "IER" ->
            IF HasBit(val, IER_PERIOD) THEN [d EXCEPT !.imr = IER_PERIOD]
            ELSE d
      [] OTHER -> d

\* Value returned by readl_relaxed(base + reg).
DevRead(d, reg) ==
    CASE reg = "TLSBR" -> d.cnt % HalfMod
      [] reg = "TMSBR" -> IF hwLatch THEN d.tmsb ELSE d.cnt \div HalfMod
      [] reg = "MSB_PR" -> d.pr_msb
      [] reg = "LSB_PR" -> d.pr_lsb
      [] reg = "MR" -> d.mr
      [] reg = "IMR" -> d.imr
      [] reg = "ISR" -> d.isr
      [] OTHER -> 0

\* Side effect of the read on the block.
DevAfterRead(d, reg) ==
    IF reg = "TLSBR" /\ hwLatch THEN [d EXCEPT !.tmsb = d.cnt \div HalfMod]
    ELSE IF reg = "ISR" THEN [d EXCEPT !.isr = 0]
    ELSE d

\* ------------------------------------------------------------------------
\* Register protocol
\* ------------------------------------------------------------------------
\* A plausible slip: the high half read first.
get_period_order_msb_first == <<"TMSBR", "TLSBR">>

\* The registers get_period reads, in order: "LSB must be read first".
get_period_order == <<"TLSBR", "TMSBR">>

\* A plausible slip: the halves combined the wrong way round.
get_period_value_swapped(lsb, msb) == lsb * HalfMod + msb

\* ((u64)msb << 32) | lsb, lsb < 2^32
get_period_value(lsb, msb) == msb * HalfMod + lsb

\* A plausible slip: the halves written to each other's register.
set_period_writes_swapped(cycles) ==
    <<  <<"MSB_PR", cycles % HalfMod>>, <<"LSB_PR", cycles \div HalfMod>>  >>

\* A plausible slip: the low half written first.
set_period_writes_lsb_first(cycles) ==
    <<  <<"LSB_PR", cycles % HalfMod>>, <<"MSB_PR", cycles \div HalfMod>>  >>

\* lsb = cycles & LSBMASK; msb = cycles >> 32; write MSB_PR, then LSB_PR.
\* The writes, in order.
set_period_writes(cycles) ==
    <<  <<"MSB_PR", cycles \div HalfMod>>, <<"LSB_PR", cycles % HalfMod>>  >>

RECURSIVE DevWriteAll(_, _)
DevWriteAll(d, ws) ==
    IF ws = <<>> THEN d
    ELSE DevWriteAll(DevWrite(d, Head(ws)[1], Head(ws)[2]), Tail(ws))

\* ------------------------------------------------------------------------
\* SpecPres: the solvers on their inputs
\* ------------------------------------------------------------------------
PresOff ==
    /\ p_pc = "off" /\ p_clk = 0 /\ p_max = 0 /\ p_ret = 0
    /\ r_call = <<>> /\ phy = <<>>

CntOff ==
    /\ c_pc = "off" /\ c_first = 0 /\ c_ret = -1 /\ c_prev = -1 /\ c_wr = -1
    /\ c_since = "none" /\ c_abs = 0 /\ c_t1 = 0 /\ c_t2 = 0 /\ c_prev_t1 = 0
    /\ c_torn = FALSE /\ c_prev_torn = FALSE /\ c_ticks = 0 /\ c_reads = 0

\* Instances that can be allocated.
InstIds == 1..MaxCalls

\* kzalloc'ed, zero-filled instance / freed memory.
\* kind, in_rate and built are bookkeeping: the constructor that allocated
\* it, the rate clk_get_rate returned, and whether dt_init returned 0.
\* reg_hz / reg_bits / registered: what the time framework was given (the
\* rate, and for a clocksource the width of its mask).
FreeInst ==
    [alloc |-> FALSE, kind |-> "none", base |-> 0, clk |-> 0, cycles |-> 0,
     pres |-> 0, dev_set |-> FALSE, in_rate |-> 0, reg_hz |-> 0,
     reg_bits |-> 0, registered |-> FALSE, built |-> FALSE]

ResKinds == {"map", "clk", "en", "irqmap", "irq", "mem"}

NoRes ==
    [map |-> [n \in Nodes |-> 0], clk |-> [n \in Nodes |-> 0],
     en |-> [n \in Nodes |-> 0], irqmap |-> [n \in Nodes |-> 0],
     irq |-> [n \in Nodes |-> 0], mem |-> [n \in Nodes |-> 0],
     irq_dev |-> [n \in Nodes |-> 0], log |-> <<>>]

LifeOff ==
    /\ data_csd = 0 /\ data_ced = 0
    /\ heap = [i \in InstIds |-> FreeInst]
    /\ res = NoRes
    /\ clkevt_state = "detached"
    /\ l_pc = "off" /\ l_node = 0 /\ l_mode = "none" /\ l_inst = 0
    /\ l_rate = 0 /\ l_ret = "none" /\ l_fail = "" /\ calls = 0
    /\ wlog = <<>> /\ last_reset = <<>> /\ snap = <<>>

EvtOff == suspended = FALSE /\ h = <<>> /\ pre = <<>> /\ irq_h = <<>>

InitPres ==
    /\ variant \in Variants
    /\ p_pc = "in"
    /\ p_clk \in PresClkRates
    /\ p_max \in PresMaxRates
    /\ p_ret = 0
    /\ r_call = <<>> /\ phy = <<>>
    /\ dev = [n \in Nodes |-> DevResetState]
    /\ hwLatch = FALSE
    /\ CntOff
    /\ LifeOff
    /\ EvtOff

\* One call of the variant's solver.
PresCompute ==
    /\ p_pc = "in"
    /\ p_ret' = pres_compute(variant, p_clk, p_max)
    /\ p_pc' = "out"
    /\ UNCHANGED <<variant, p_clk, p_max, r_call, phy, dev, hwLatch, cntVars,
                   lifeVars, evtVars>>

NextPres == PresCompute

SpecPres == InitPres /\ [][NextPres]_vars

\* ------------------------------------------------------------------------
\* SpecCounter: get_period / set_period against a counting device
\* ------------------------------------------------------------------------
\* Counts the device starts from, and values written as a period.
StartCounts == {0, HalfMod - 2, U64Mod - 2}
PeriodValues == {1, LSBMASK, HalfMod, HalfMod + 1, ULLONG_MAX}

InitCounter ==
    /\ variant \in Variants
    /\ PresOff
    /\ hwLatch \in BOOLEAN
    /\ \E c0 \in StartCounts, run \in BOOLEAN :
          /\ dev = [n \in Nodes |->
                      IF n = 1
                      THEN [DevResetState EXCEPT !.cnt = c0, !.started = run,
                                                 !.tmsb = c0 \div HalfMod]
                      ELSE DevResetState]
          /\ c_abs = c0
    /\ c_pc = "idle" /\ c_first = 0 /\ c_ret = -1 /\ c_prev = -1 /\ c_wr = -1
    /\ c_since = "none" /\ c_t1 = 0 /\ c_t2 = 0 /\ c_prev_t1 = 0
    /\ c_torn = FALSE /\ c_prev_torn = FALSE /\ c_ticks = 0 /\ c_reads = 0
    /\ LifeOff
    /\ EvtOff

\* The started device counts one input clock period.
DevTick ==
    /\ c_pc # "off"
    /\ dev[1].started
    /\ c_ticks < MaxTicks
    /\ dev' = [dev EXCEPT ![1].cnt = (dev[1].cnt + 1) % U64Mod]
    /\ c_abs' = c_abs + 1
    /\ c_ticks' = c_ticks + 1
    /\ c_since' = "none"
    /\ UNCHANGED <<variant, presVars, hwLatch, c_pc, c_first, c_ret, c_prev,
                   c_wr, c_t1, c_t2, c_prev_t1, c_torn, c_prev_torn, c_reads,
                   lifeVars, evtVars>>

\* get_period, first register read: lsb = read(base, TLSBR).
GetPeriodLsb ==
    /\ c_pc = "idle"
    /\ c_reads < MaxReads
    /\ c_first' = DevRead(dev[1], get_period_order[1])
    /\ dev' = [dev EXCEPT ![1] = DevAfterRead(dev[1], get_period_order[1])]
    /\ c_prev_t1' = c_t1
    /\ c_t1' = c_abs
    /\ c_pc' = "msb"
    /\ UNCHANGED <<variant, presVars, hwLatch, c_ret, c_prev, c_wr, c_since,
                   c_abs, c_t2, c_torn, c_prev_torn, c_ticks, c_reads,
                   lifeVars, evtVars>>

\* get_period, second register read and return: msb = read(base, TMSBR);
\* return ((u64)msb << 32) | lsb.
GetPeriodMsb ==
    /\ c_pc = "msb"
    /\ LET second == DevRead(dev[1], get_period_order[2])
           lsb == IF get_period_order[1] = "TLSBR" THEN c_first ELSE second
           msb == IF get_period_order[1] = "TLSBR" THEN second ELSE c_first
       IN  /\ c_ret' = get_period_value(lsb, msb)
           /\ c_torn' = (msb # (c_t1 % U64Mod) \div HalfMod)
    /\ dev' = [dev EXCEPT ![1] = DevAfterRead(dev[1], get_period_order[2])]
    /\ c_prev' = c_ret
    /\ c_prev_torn' = c_torn
    /\ c_t2' = c_abs
    /\ c_reads' = c_reads + 1
    /\ c_since' = IF c_since = "written" THEN "read" ELSE "none"
    /\ c_pc' = "idle"
    /\ UNCHANGED <<variant, presVars, hwLatch, c_first, c_wr, c_abs, c_t1,
                   c_prev_t1, c_ticks, lifeVars, evtVars>>

\* set_period(base, cycles).
SetPeriod ==
    /\ c_pc = "idle"
    /\ \E cycles \in PeriodValues :
          /\ dev' = [dev EXCEPT ![1] = DevWriteAll(dev[1], set_period_writes(cycles))]
          /\ c_wr' = cycles
    /\ c_since' = "written"
    /\ UNCHANGED <<variant, presVars, hwLatch, c_pc, c_first, c_ret, c_prev,
                   c_abs, c_t1, c_t2, c_prev_t1, c_torn, c_prev_torn, c_ticks,
                   c_reads, lifeVars, evtVars>>

NextCounter == DevTick \/ GetPeriodLsb \/ GetPeriodMsb \/ SetPeriod

SpecCounter == InitCounter /\ [][NextCounter]_vars

\* ------------------------------------------------------------------------
\* Spec: dt_init, the two constructors and the registry
\* ------------------------------------------------------------------------
\* Rates clk_get_rate may return (Hz) and error codes pass-through calls
\* (of_clk_get, clk_prepare_enable, request_irq, clocksource_register_hz)
\* may fail with.
ClkRates == {2500000, 32000000, 200000000}
ExtErrs == {"ENOENT", "EIO"}

RECURSIVE BitOr(_, _)
BitOr(a, b) ==
    IF a = 0 THEN b
    ELSE IF b = 0 THEN a
    ELSE (IF a % 2 = 1 \/ b % 2 = 1 THEN 1 ELSE 0) + 2 * BitOr(a \div 2, b \div 2)

\* A plausible slip: the device started before the interrupt is enabled.
reset_writes_start_early(pres, cycles, mode, irq_ena) ==
    <<  <<"CR", CR_SWRST>>, <<"MR", BitOr(mode, PIT64_PRESCALER(pres - 1))>>  >>
    \o set_period_writes(cycles)
    \o <<  <<"CR", CR_START>>  >>
    \o (IF irq_ena THEN <<  <<"IER", IER_PERIOD>>  >> ELSE <<>>)

\* pit64_reset(data, mode, irq_ena): the register writes, in order.
reset_writes(pres, cycles, mode, irq_ena) ==
    <<  <<"CR", CR_SWRST>>, <<"MR", BitOr(mode, PIT64_PRESCALER(pres - 1))>>  >>
    \o set_period_writes(cycles)
    \o (IF irq_ena THEN <<  <<"IER", IER_PERIOD>>  >> ELSE <<>>)
    \o <<  <<"CR", CR_START>>  >>

\* Resources: acquire / release one unit of a kind for a node, logged.
Acq(r, kind, n) ==
    [r EXCEPT ![kind][n] = @ + 1, !.log = Append(@, <<"acq", kind, n>>)]
Rel(r, kind, n) ==
    [r EXCEPT ![kind][n] = @ - 1, !.log = Append(@, <<"rel", kind, n>>)]

\* A plausible slip: the clock reference is not put on the error path.
dt_clock_put_leak(r, n) == Rel(r, "map", n)

\* dt_init's error labels: unmap; clock_put (falls into unmap); irq_unmap
\* (falls into clock_put).
dt_unmap(r, n) == Rel(r, "map", n)
dt_clock_put(r, n) == dt_unmap(Rel(r, "clk", n), n)
dt_irq_unmap(r, n) == dt_clock_put(Rel(r, "irqmap", n), n)

\* The constructors' error labels: free (kfree), clk_unprepare (falls into
\* free).
init_free(r, n) == Rel(r, "mem", n)
init_clk_unprepare(r, n) == init_free(Rel(r, "en", n), n)

\* dt_init's error path after a constructor returned an error.
dt_after_init(r, n, mode) ==
    IF mode = "CLKSRC" THEN dt_clock_put(r, n) ELSE dt_irq_unmap(r, n)

\* ret when the registry slot is taken / when no irq is found: the older
\* variant leaves ret at its initial -EINVAL.
ERR_ACTIVE(v) == IF v = "mchp" THEN "EBUSY" ELSE "EINVAL"
ERR_NOIRQ(v) == IF v = "mchp" THEN "ENODEV" ELSE "EINVAL"

\* The lowest free instance.
NewInst == CHOOSE i \in InstIds : ~heap[i].alloc /\ \A j \in 1..(i - 1) : heap[j].alloc

Counters(r) == [k \in ResKinds |-> r[k]]

Init ==
    /\ variant \in Variants
    /\ PresOff
    /\ CntOff
    /\ hwLatch = FALSE
    /\ dev = [n \in Nodes |-> DevResetState]
    /\ data_csd = 0 /\ data_ced = 0
    /\ heap = [i \in InstIds |-> FreeInst]
    /\ res = NoRes
    /\ clkevt_state = "detached"
    /\ l_pc = "idle" /\ l_node = 0 /\ l_mode = "none" /\ l_inst = 0
    /\ l_rate = 0 /\ l_ret = "none" /\ l_fail = "" /\ calls = 0
    /\ wlog = <<>> /\ last_reset = <<>> /\ snap = <<>>
    /\ EvtOff

notLife == <<variant, presVars, cntVars, hwLatch, evtVars>>

\* dt_init returns ret; fail names the failing step.
Return(ret, fail) ==
    /\ l_pc' = "returned"
    /\ l_ret' = ret
    /\ l_fail' = fail

\* pit64_clksrc_dt_init(node) / pit64_clkevt_dt_init(node): dt_init entered.
DtInitEnter(node, mode) ==
    /\ l_pc = "idle"
    /\ calls < MaxCalls
    /\ calls' = calls + 1
    /\ l_pc' = "iomap"
    /\ l_node' = node /\ l_mode' = mode /\ l_inst' = 0 /\ l_rate' = 0
    /\ l_ret' = "none" /\ l_fail' = ""
    /\ wlog' = <<>> /\ last_reset' = <<>>
    /\ UNCHANGED res
    /\ snap' = [csd |-> data_csd, ced |-> data_ced, heap |-> heap,
                res |-> Counters(res), irq_dev |-> res.irq_dev, dev |-> dev,
                clkevt_state |-> clkevt_state]
    /\ h' = <<>> /\ pre' = <<>>
    /\ UNCHANGED <<variant, presVars, cntVars, hwLatch, suspended, irq_h, dev,
                   data_csd, data_ced, heap, clkevt_state>>

ClksrcDtInit == \E node \in Nodes : DtInitEnter(node, "CLKSRC")
ClkevtDtInit == \E node \in Nodes : DtInitEnter(node, "CLKEVT")

\* base = of_iomap(node, 0); if (!base) return -ENXIO;
OfIomap ==
    /\ l_pc = "iomap"
    /\ \E ok \in BOOLEAN :
          IF ok
          THEN /\ res' = Acq(res, "map", l_node)
               /\ l_pc' = "clk_get"
               /\ UNCHANGED <<l_ret, l_fail>>
          ELSE /\ Return("ENXIO", "iomap")
               /\ UNCHANGED res
    /\ UNCHANGED <<notLife, dev, data_csd, data_ced, heap, clkevt_state,
                   l_node, l_mode, l_inst, l_rate, calls, wlog, last_reset,
                   snap>>

\* clk = of_clk_get(node, 0); if (IS_ERR(clk)) { ret = PTR_ERR(clk); goto unmap; }
OfClkGet ==
    /\ l_pc = "clk_get"
    /\ \E r \in {"OK"} \cup ExtErrs :
          IF r = "OK"
          THEN /\ res' = Acq(res, "clk", l_node)
               /\ l_pc' = "switch"
               /\ UNCHANGED <<l_ret, l_fail>>
          ELSE /\ res' = dt_unmap(res, l_node)
               /\ Return(r, "clk_get")
    /\ UNCHANGED <<notLife, dev, data_csd, data_ced, heap, clkevt_state,
                   l_node, l_mode, l_inst, l_rate, calls, wlog, last_reset,
                   snap>>

\* The test of the registry slot omitted: a second instance is built.
slot_active_never(slot) == FALSE

\* if (data.csd) goto clock_put;  /  if (data.ced) goto clock_put;
slot_active(slot) == slot # 0

\* switch (mode): the registry check of the mode's slot; default: -EINVAL.
Switch ==
    /\ l_pc = "switch"
    /\ IF l_mode = "CLKSRC"
       THEN IF slot_active(data_csd)
            THEN /\ res' = dt_clock_put(res, l_node)
                 /\ Return(ERR_ACTIVE(variant), "active")
            ELSE /\ l_pc' = "alloc"
                 /\ UNCHANGED <<res, l_ret, l_fail>>
       ELSE IF l_mode = "CLKEVT"
       THEN IF slot_active(data_ced)
            THEN /\ res' = dt_clock_put(res, l_node)
                 /\ Return(ERR_ACTIVE(variant), "active")
            ELSE /\ l_pc' = "irq_map"
                 /\ UNCHANGED <<res, l_ret, l_fail>>
       ELSE /\ res' = dt_clock_put(res, l_node)
            /\ Return("EINVAL", "mode")
    /\ UNCHANGED <<notLife, dev, data_csd, data_ced, heap, clkevt_state,
                   l_node, l_mode, l_inst, l_rate, calls, wlog, last_reset,
                   snap>>

\* irq = irq_of_parse_and_map(node, 0); if (!irq) goto clock_put;
IrqOfParseAndMap ==
    /\ l_pc = "irq_map"
    /\ \E ok \in BOOLEAN :
          IF ok
          THEN /\ res' = Acq(res, "irqmap", l_node)
               /\ l_pc' = "alloc"
               /\ UNCHANGED <<l_ret, l_fail>>
          ELSE /\ res' = dt_clock_put(res, l_node)
               /\ Return(ERR_NOIRQ(variant), "irq_map")
    /\ UNCHANGED <<notLife, dev, data_csd, data_ced, heap, clkevt_state,
                   l_node, l_mode, l_inst, l_rate, calls, wlog, last_reset,
                   snap>>

\* dt_init_clksrc / dt_init_clkevt entered: csd = kzalloc(...);
\* if (!csd) return -ENOMEM; csd->cd.base = base; csd->cd.clk = clk;
Kzalloc ==
    /\ l_pc = "alloc"
    /\ \E ok \in BOOLEAN :
          IF ok
          THEN /\ l_inst' = NewInst
               /\ heap' = [heap EXCEPT ![NewInst] =
                             [FreeInst EXCEPT !.alloc = TRUE,
                                !.kind = IF l_mode = "CLKSRC" THEN "clksrc" ELSE "clkevt",
                                !.base = l_node, !.clk = l_node]]
               /\ res' = Acq(res, "mem", l_node)
               /\ l_pc' = "clk_enable"
               /\ UNCHANGED <<l_ret, l_fail>>
          ELSE /\ res' = dt_after_init(res, l_node, l_mode)
               /\ Return("ENOMEM", "alloc")
               /\ UNCHANGED <<l_inst, heap>>
    /\ UNCHANGED <<notLife, dev, data_csd, data_ced, clkevt_state,
                   l_node, l_mode, l_rate, calls, wlog, last_reset, snap>>

\* ret = clk_prepare_enable(csd->cd.clk); if (ret) goto free;
\* free: kfree(csd); data.csd = NULL; return ret;
ClkPrepareEnable ==
    /\ l_pc = "clk_enable"
    /\ \E r \in {"OK"} \cup ExtErrs :
          IF r = "OK"
          THEN /\ res' = Acq(res, "en", heap[l_inst].clk)
               /\ l_pc' = "compute"
               /\ UNCHANGED <<l_ret, l_fail, heap, data_csd, data_ced>>
          ELSE /\ res' = dt_after_init(init_free(res, l_node), l_node, l_mode)
               /\ heap' = [heap EXCEPT ![l_inst] = FreeInst]
               /\ data_csd' = IF l_mode = "CLKSRC" THEN 0 ELSE data_csd
               /\ data_ced' = IF l_mode = "CLKEVT" THEN 0 ELSE data_ced
               /\ Return(r, "clk_enable")
    /\ UNCHANGED <<notLife, dev, clkevt_state, l_node, l_mode, l_inst,
                   l_rate, calls, wlog, last_reset, snap>>

\* Outcomes of the unsigned division clk_rate / pres; pres = 0 is undefined
\* behaviour: a trap (-1 here) or some quotient.
DivOutcomes(clk_rate, pres) ==
    IF pres # 0 THEN {clk_rate \div pres} ELSE {-1, 0, clk_rate}

\* Register writes of a handler on the block of node n, logged.
Logged(n, ws) == [k \in 1..Len(ws) |-> <<n, ws[k][1], ws[k][2]>>]

\* clk_rate = clk_get_rate(clk); cd.pres = pres_compute(clk_rate, RATE);
\* clk_rate = clk_rate / cd.pres; cd.cycles = ...;
\* clksrc: reset(&csd->cd, MR_CONT, false); data.csd = csd;
\*         csd->clksrc = &clksrc;
Compute ==
    /\ l_pc = "compute"
    /\ \E rate \in ClkRates :
        LET pres == pres_compute(variant, rate,
                        IF l_mode = "CLKSRC" THEN MCHP_PIT64_CS_RATE
                        ELSE MCHP_PIT64_CE_RATE)
        IN  \E q \in DivOutcomes(rate, pres) :
              IF q = -1
              THEN /\ l_pc' = "crashed"
                   /\ heap' = [heap EXCEPT ![l_inst].pres = pres,
                                           ![l_inst].in_rate = rate]
                   /\ UNCHANGED <<l_rate, dev, data_csd, wlog, last_reset>>
              ELSE IF l_mode = "CLKSRC"
              THEN LET ws == reset_writes(pres, ULLONG_MAX, MR_CONT, FALSE)
                   IN  /\ heap' = [heap EXCEPT ![l_inst].pres = pres,
                                               ![l_inst].in_rate = rate,
                                               ![l_inst].cycles = ULLONG_MAX,
                                               ![l_inst].dev_set = TRUE]
                       /\ l_rate' = q
                       /\ dev' = [dev EXCEPT ![heap[l_inst].base] =
                                     DevWriteAll(@, ws)]
                       /\ wlog' = wlog \o Logged(heap[l_inst].base, ws)
                       /\ last_reset' = <<pres, ULLONG_MAX, MR_CONT, FALSE>>
                       /\ data_csd' = l_inst
                       /\ l_pc' = "register"
              ELSE /\ heap' = [heap EXCEPT ![l_inst].pres = pres,
                                           ![l_inst].in_rate = rate,
                                           ![l_inst].cycles =
                                               DIV_ROUND_CLOSEST(q, HZ)]
                   /\ l_rate' = q
                   /\ l_pc' = "request_irq"
                   /\ UNCHANGED <<dev, data_csd, wlog, last_reset>>
    /\ UNCHANGED <<notLife, data_ced, res, clkevt_state, l_node, l_mode,
                   l_inst, l_ret, l_fail, calls, snap>>

\* ret = request_irq(irq, pit64_interrupt, IRQF_TIMER, "pit64_tick", ced);
\* if (ret) goto clk_unprepare;
RequestIrq ==
    /\ l_pc = "request_irq"
    /\ \E r \in {"OK"} \cup ExtErrs :
          IF r = "OK"
          THEN /\ res' = [Acq(res, "irq", l_node) EXCEPT !.irq_dev[l_node] = l_inst]
               /\ l_pc' = "install"
               /\ UNCHANGED <<l_ret, l_fail, heap, data_ced>>
          ELSE /\ res' = dt_after_init(init_clk_unprepare(res, l_node),
                                       l_node, l_mode)
               /\ heap' = [heap EXCEPT ![l_inst] = FreeInst]
               /\ data_ced' = 0
               /\ Return(r, "request_irq")
    /\ UNCHANGED <<notLife, dev, data_csd, clkevt_state, l_node, l_mode,
                   l_inst, l_rate, calls, wlog, last_reset, snap>>

\* data.ced = ced;
InstallCed ==
    /\ l_pc = "install"
    /\ data_ced' = l_inst
    /\ l_pc' = "setdev"
    /\ UNCHANGED <<notLife, dev, data_csd, heap, res, clkevt_state, l_node,
                   l_mode, l_inst, l_rate, l_ret, l_fail, calls, wlog,
                   last_reset, snap>>

\* ced->clkevt = &clkevt; ced->clkevt->cpumask = ...; ced->clkevt->irq = irq;
SetClkevtDev ==
    /\ l_pc = "setdev"
    /\ heap' = [heap EXCEPT ![l_inst].dev_set = TRUE]
    /\ l_pc' = "register"
    /\ UNCHANGED <<notLife, dev, data_csd, data_ced, res, clkevt_state,
                   l_node, l_mode, l_inst, l_rate, l_ret, l_fail, calls, wlog,
                   last_reset, snap>>

\* clksrc: ret = clocksource_register_hz(csd->clksrc, clk_rate);
\*         if (ret) goto clk_unprepare; sched_clock_register(...); return 0;
\* clkevt: clockevents_config_and_register(ced->clkevt, clk_rate, 1,
\*         ULONG_MAX); return 0;
Register ==
    /\ l_pc = "register"
    /\ \E r \in {"OK"} \cup (IF l_mode = "CLKSRC" THEN ExtErrs ELSE {}) :
          IF r = "OK"
          THEN /\ heap' = [heap EXCEPT ![l_inst].registered = TRUE,
                                       ![l_inst].reg_hz = l_rate,
                                       ![l_inst].reg_bits =
                                           IF l_mode = "CLKSRC"
                                           THEN CLOCKSOURCE_MASK_BITS ELSE 0,
                                       ![l_inst].built = TRUE]
               /\ clkevt_state' = IF l_mode = "CLKEVT" THEN "shutdown"
                                  ELSE clkevt_state
               /\ Return("OK", "")
               /\ UNCHANGED <<res, data_csd>>
          ELSE /\ res' = dt_after_init(init_clk_unprepare(res, l_node),
                                       l_node, l_mode)
               /\ heap' = [heap EXCEPT ![l_inst] = FreeInst]
               /\ data_csd' = 0
               /\ Return(r, "register")
               /\ UNCHANGED clkevt_state
    /\ UNCHANGED <<notLife, dev, data_ced, l_node, l_mode, l_inst, l_rate,
                   calls, wlog, last_reset, snap>>

\* The caller takes the value returned: the frame of the call is gone.
DtInitReturn ==
    /\ l_pc = "returned"
    /\ l_pc' = "idle"
    /\ l_node' = 0 /\ l_mode' = "none" /\ l_inst' = 0 /\ l_rate' = 0
    /\ l_ret' = "none" /\ l_fail' = ""
    /\ wlog' = <<>> /\ last_reset' = <<>> /\ snap' = <<>>
    /\ res' = [res EXCEPT !.log = <<>>]
    /\ UNCHANGED <<notLife, dev, data_csd, data_ced, heap, clkevt_state,
                   calls>>

\* A plausible slip: a state callback that refuses to reprogram.
set_state_ret_busy(state) == IF state = "oneshot" THEN -16 ELSE 0

\* The value the set_state_* callbacks return: return 0.
set_state_ret(state) == 0

\* What a callback finds when it is entered: the devices, the instances,
\* the clock enable counts, the state the framework records and the
\* callback run before.
Pre ==
    [dev |-> dev, heap |-> heap, en |-> res.en, state |-> clkevt_state,
     name |-> IF h = <<>> THEN "" ELSE h.name]

\* The framework may run a callback of the registered device.
ClkevtReady ==
    /\ l_pc = "idle"
    /\ data_ced # 0
    /\ heap[data_ced].registered
    /\ ~suspended

\* A clockevents state callback that reprograms the device:
\* reset(&data.ced->cd, mode, true); return 0;
\* the framework records the new state when the callback returns 0.
ClkevtReset(mode, state) ==
    /\ ClkevtReady
    /\ LET cd == heap[data_ced]
           ws == reset_writes(cd.pres, cd.cycles, mode, TRUE)
       IN  /\ dev' = [dev EXCEPT ![cd.base] = DevWriteAll(@, ws)]
           /\ wlog' = Logged(cd.base, ws)
           /\ last_reset' = <<cd.pres, cd.cycles, mode, TRUE>>
    /\ h' = [name |-> state, ret |-> set_state_ret(state), evt |-> 0]
    /\ pre' = Pre
    /\ clkevt_state' = IF set_state_ret(state) = 0 THEN state ELSE clkevt_state
    /\ irq_h' = <<>>
    /\ UNCHANGED <<variant, presVars, cntVars, hwLatch, suspended,
                   data_csd, data_ced, heap, res, l_pc, l_node,
                   l_mode, l_inst, l_rate, l_ret, l_fail, calls, snap>>

\* pit64_clkevt_set_periodic / pit64_clkevt_set_oneshot
ClkevtSetPeriodic == ClkevtReset(MR_CONT, "periodic")
ClkevtSetOneshot == ClkevtReset(MR_SMOD, "oneshot")

Next ==
    \/ ClksrcDtInit
    \/ ClkevtDtInit
    \/ OfIomap
    \/ OfClkGet
    \/ Switch
    \/ IrqOfParseAndMap
    \/ Kzalloc
    \/ ClkPrepareEnable
    \/ Compute
    \/ RequestIrq
    \/ InstallCed
    \/ SetClkevtDev
    \/ Register
    \/ DtInitReturn
    \/ ClkevtSetPeriodic
    \/ ClkevtSetOneshot

Spec == Init /\ [][Next]_vars

\* ------------------------------------------------------------------------
\* SpecEvt: the clock event device, from the moment its interrupt handler
\* is requested: the rest of its construction, its callbacks, its interrupt
\* ------------------------------------------------------------------------
\* A plausible slip: the handler does not compare dev_id with the registry.
pit64_interrupt_any_dev(ced, irq_data, has_handler, isr) ==
    IF HasBit(isr, ISR_PERIOD)
    THEN [ret |-> "IRQ_HANDLED", events |-> 1, reads |-> <<"ISR">>]
    ELSE [ret |-> "IRQ_NONE", events |-> 0, reads |-> <<"ISR">>]

\* pit64_interrupt(irq, dev_id): the value returned, the calls of
\* irq_data->clkevt->event_handler and the registers read.  has_handler:
\* irq_data->clkevt and its event_handler are set; the call through a null
\* pointer otherwise is an oops.
pit64_interrupt(ced, irq_data, has_handler, isr) ==
    IF ced # irq_data
    THEN [ret |-> "IRQ_NONE", events |-> 0, reads |-> <<>>]
    ELSE IF HasBit(isr, ISR_PERIOD)
    THEN IF has_handler
         THEN [ret |-> "IRQ_HANDLED", events |-> 1, reads |-> <<"ISR">>]
         ELSE [ret |-> "OOPS", events |-> 0, reads |-> <<"ISR">>]
    ELSE [ret |-> "IRQ_NONE", events |-> 0, reads |-> <<"ISR">>]

\* States a boot loader may leave the block in: reset, or counting with the
\* period interrupt enabled.
BootStates ==
    {DevResetState, [DevResetState EXCEPT !.started = TRUE, !.imr = IER_PERIOD]}

\* dt_init(node, CLKEVT) as the first call, at the return of request_irq in
\* dt_init_clkevt: mapping, clock, irq mapping, memory, clock enable and
\* interrupt line are held, cd.pres and cd.cycles are computed.
InitEvt ==
    /\ variant \in Variants
    /\ PresOff
    /\ CntOff
    /\ hwLatch = FALSE
    /\ EvtOff
    /\ data_csd = 0 /\ data_ced = 0
    /\ clkevt_state = "detached"
    /\ l_pc = "install" /\ l_mode = "CLKEVT" /\ l_inst = 1
    /\ l_ret = "none" /\ l_fail = "" /\ calls = 1
    /\ wlog = <<>> /\ last_reset = <<>>
    /\ \E n \in Nodes, rate \in ClkRates, boot \in BootStates :
        LET pres == pres_compute(variant, rate, MCHP_PIT64_CE_RATE)
        IN  \E q \in DivOutcomes(rate, pres) \ {-1} :
              /\ l_node = n
              /\ l_rate = q
              /\ dev = [m \in Nodes |-> IF m = n THEN boot ELSE DevResetState]
              /\ heap = [i \in InstIds |->
                           IF i = 1
                           THEN [FreeInst EXCEPT !.alloc = TRUE,
                                    !.kind = "clkevt", !.base = n, !.clk = n,
                                    !.pres = pres, !.in_rate = rate,
                                    !.cycles = DIV_ROUND_CLOSEST(q, HZ)]
                           ELSE FreeInst]
              /\ res = [NoRes EXCEPT !.map[n] = 1, !.clk[n] = 1,
                           !.irqmap[n] = 1, !.mem[n] = 1, !.en[n] = 1,
                           !.irq[n] = 1, !.irq_dev[n] = 1,
                           !.log = <<  <<"acq", "map", n>>, <<"acq", "clk", n>>,
                                       <<"acq", "irqmap", n>>, <<"acq", "mem", n>>,
                                       <<"acq", "en", n>>, <<"acq", "irq", n>>  >>]
              /\ snap = [csd |-> 0, ced |-> 0,
                         heap |-> [i \in InstIds |-> FreeInst],
                         res |-> Counters(NoRes), irq_dev |-> NoRes.irq_dev,
                         dev |-> dev, clkevt_state |-> "detached"]

\* The counter of a started block reaches its period: the status bit is set.
DevPeriod ==
    /\ l_pc \notin {"off", "crashed"}
    /\ \E n \in Nodes :
          /\ dev[n].started
          /\ dev[n].isr = 0
          /\ dev' = [dev EXCEPT ![n].isr = ISR_PERIOD]
    /\ UNCHANGED <<variant, presVars, hwLatch, cntVars, lifeVars, evtVars>>

\* The kernel runs the handler requested for the interrupt line of a node,
\* with the dev_id given to request_irq.
Interrupt ==
    /\ l_pc \notin {"off", "crashed"}
    /\ \E n \in Nodes :
          /\ res.irq[n] > 0
          /\ LET irq_data == res.irq_dev[n]
                 d == dev[heap[irq_data].base]
                 r == pit64_interrupt(data_ced, irq_data,
                                      heap[irq_data].dev_set
                                          /\ heap[irq_data].registered,
                                      DevRead(d, "ISR"))
             IN  /\ irq_h' = [dev_id |-> irq_data, ced |-> data_ced,
                              isr |-> d.isr, ret |-> r.ret,
                              events |-> r.events, reads |-> r.reads]
                 /\ dev' = IF r.reads = <<>> THEN dev
                           ELSE [dev EXCEPT ![heap[irq_data].base] =
                                    DevAfterRead(d, "ISR")]
                 /\ l_pc' = IF r.ret = "OOPS" THEN "crashed" ELSE l_pc
    /\ UNCHANGED <<variant, presVars, hwLatch, cntVars, data_csd, data_ced,
                   heap, res, clkevt_state, l_node, l_mode, l_inst, l_rate,
                   l_ret, l_fail, calls, wlog, last_reset, snap, suspended, h,
                   pre>>

\* Values the framework passes to set_next_event (unsigned long evt).
EvtValues == {LSBMASK, HalfMod + 1}

\* A plausible slip: shutdown restarts the counter after the reset.
shutdown_writes_restart == <<  <<"CR", CR_SWRST>>, <<"CR", CR_START>>  >>

\* pit64_clkevt_shutdown: the register writes.
shutdown_writes == <<  <<"CR", CR_SWRST>>  >>

\* A plausible slip: set_next_event goes through a software reset.
set_next_event_writes_reset(evt) ==
    <<  <<"CR", CR_SWRST>>  >> \o set_period_writes(evt)
    \o <<  <<"CR", CR_START>>  >>

\* pit64_clkevt_set_next_event: set_period(base, evt); write(CR, START).
set_next_event_writes(evt) == set_period_writes(evt) \o <<  <<"CR", CR_START>>  >>

\* The functions the clock_event_device structure registers as .suspend and
\* .resume: struct clkevt has the two the other way round.
clkevt(v) ==
    IF v = "at91"
    THEN [suspend |-> "pit64_clkevt_resume", resume |-> "pit64_clkevt_suspend"]
    ELSE [suspend |-> "pit64_clkevt_suspend", resume |-> "pit64_clkevt_resume"]

\* clk_disable_unprepare on a count that is already 0 leaves it at 0.
ClkDisable(r, n) == [r EXCEPT !.en[n] = IF @ > 0 THEN @ - 1 ELSE 0]

\* pit64_clkevt_shutdown: write(CR, SWRST); return 0;
ClkevtShutdown ==
    /\ ClkevtReady
    /\ LET cd == heap[data_ced]
       IN  /\ dev' = [dev EXCEPT ![cd.base] = DevWriteAll(@, shutdown_writes)]
           /\ wlog' = Logged(cd.base, shutdown_writes)
    /\ last_reset' = <<>>
    /\ h' = [name |-> "shutdown", ret |-> set_state_ret("shutdown"), evt |-> 0]
    /\ pre' = Pre
    /\ clkevt_state' = IF set_state_ret("shutdown") = 0 THEN "shutdown"
                       ELSE clkevt_state
    /\ irq_h' = <<>>
    /\ UNCHANGED <<variant, presVars, cntVars, hwLatch, suspended,
                   data_csd, data_ced, heap, res, l_pc, l_node,
                   l_mode, l_inst, l_rate, l_ret, l_fail, calls, snap>>

\* pit64_clkevt_set_next_event(evt, cedev): no test of the state.
ClkevtSetNextEvent ==
    /\ ClkevtReady
    /\ \E evt \in EvtValues :
        LET cd == heap[data_ced]
            ws == set_next_event_writes(evt)
        IN  /\ dev' = [dev EXCEPT ![cd.base] = DevWriteAll(@, ws)]
            /\ wlog' = Logged(cd.base, ws)
            /\ h' = [name |-> "next_event", ret |-> 0, evt |-> evt]
    /\ last_reset' = <<>>
    /\ pre' = Pre
    /\ irq_h' = <<>>
    /\ UNCHANGED <<variant, presVars, cntVars, hwLatch, suspended,
                   data_csd, data_ced, heap, res, clkevt_state, l_pc, l_node,
                   l_mode, l_inst, l_rate, l_ret, l_fail, calls, snap>>

\* Body of pit64_clkevt_suspend: write(CR, SWRST);
\* clk_disable_unprepare(data.ced->cd.clk);
SuspendBody ==
    LET cd == heap[data_ced]
    IN  /\ dev' = [dev EXCEPT ![cd.base] = DevWriteAll(@, shutdown_writes)]
        /\ wlog' = Logged(cd.base, shutdown_writes)
        /\ last_reset' = <<>>
        /\ res' = ClkDisable(res, cd.clk)

\* Body of pit64_clkevt_resume: if (clk_prepare_enable(clk)) return;
\* mode = periodic state ? MR_CONT : MR_SMOD; reset(&data.ced->cd, mode, true);
\* ok: clk_prepare_enable returned 0.
ResumeBody(ok) ==
    LET cd == heap[data_ced]
        mode == IF clkevt_state = "periodic" THEN MR_CONT ELSE MR_SMOD
        ws == reset_writes(cd.pres, cd.cycles, mode, TRUE)
    IN  IF ok
        THEN /\ res' = [res EXCEPT !.en[cd.clk] = @ + 1]
             /\ dev' = [dev EXCEPT ![cd.base] = DevWriteAll(@, ws)]
             /\ wlog' = Logged(cd.base, ws)
             /\ last_reset' = <<cd.pres, cd.cycles, mode, TRUE>>
        ELSE /\ wlog' = <<>>
             /\ last_reset' = <<>>
             /\ UNCHANGED <<res, dev>>

\* One run of the function fn registered as a power callback; h records
\* the function and, for pit64_clkevt_resume, whether the clock was enabled.
PowerCallback(name, fn) ==
    IF fn = "pit64_clkevt_suspend"
    THEN /\ SuspendBody
         /\ h' = [name |-> name, ret |-> 0, evt |-> 0, fn |-> fn,
                  clk_ok |-> TRUE]
    ELSE \E ok \in BOOLEAN :
            /\ ResumeBody(ok)
            /\ h' = [name |-> name, ret |-> 0, evt |-> 0, fn |-> fn,
                     clk_ok |-> ok]

\* The framework suspends the device: clkevt.suspend(cedev).
ClkevtSuspend ==
    /\ ClkevtReady
    /\ suspended' = TRUE
    /\ PowerCallback("suspend", clkevt(variant).suspend)
    /\ pre' = Pre
    /\ irq_h' = <<>>
    /\ UNCHANGED <<variant, presVars, cntVars, hwLatch,
                   data_csd, data_ced, heap, clkevt_state, l_pc, l_node,
                   l_mode, l_inst, l_rate, l_ret, l_fail, calls, snap>>

\* The framework resumes the device: clkevt.resume(cedev).  pre keeps what
\* the suspend before it found.
ClkevtResume ==
    /\ l_pc = "idle"
    /\ suspended
    /\ suspended' = FALSE
    /\ PowerCallback("resume", clkevt(variant).resume)
    /\ irq_h' = <<>>
    /\ UNCHANGED <<variant, presVars, cntVars, hwLatch, pre,
                   data_csd, data_ced, heap, clkevt_state, l_pc, l_node,
                   l_mode, l_inst, l_rate, l_ret, l_fail, calls, snap>>

NextEvt ==
    \/ InstallCed
    \/ SetClkevtDev
    \/ Register
    \/ DtInitReturn
    \/ ClkevtShutdown
    \/ ClkevtSetPeriodic
    \/ ClkevtSetOneshot
    \/ ClkevtSetNextEvent
    \/ ClkevtSuspend
    \/ ClkevtResume
    \/ DevPeriod
    \/ Interrupt

SpecEvt == InitEvt /\ [][NextEvt]_vars

\* ------------------------------------------------------------------------
\* SpecMode: the mode word pit64_reset writes, as a function of the stored
\* divider and of the mode flags
\* ------------------------------------------------------------------------
\* Dividers a TimerCore may store and the flags the driver passes to reset
\* (clocksource and set_periodic: MR_CONT; set_oneshot: MR_SMOD).
ModeDividers == 1..MCHP_PRES_MAX
ModeFlagSets == {MR_CONT, MR_SMOD}

InitMode ==
    /\ variant \in Variants
    /\ p_pc = "off" /\ p_clk = 0 /\ p_max = 0 /\ p_ret = 0
    /\ \E pres \in ModeDividers, mode \in ModeFlagSets, irq_ena \in BOOLEAN :
          r_call = [pc |-> "in", pres |-> pres, mode |-> mode,
                    irq_ena |-> irq_ena, mr |-> 0]
    /\ phy = <<>>
    /\ dev = [n \in Nodes |-> DevResetState]
    /\ hwLatch = FALSE
    /\ CntOff
    /\ LifeOff
    /\ EvtOff

\* The value of the write to MR among the writes ws.
MrWritten(ws) == ws[CHOOSE k \in 1..Len(ws) : ws[k][1] = "MR"][2]

\* pit64_reset(data, mode, irq_ena) on the device of node 1.
ResetCall ==
    /\ r_call # <<>> /\ r_call.pc = "in"
    /\ LET ws == reset_writes(r_call.pres, 0, r_call.mode, r_call.irq_ena)
       IN  /\ r_call' = [r_call EXCEPT !.pc = "out", !.mr = MrWritten(ws)]
           /\ dev' = [dev EXCEPT ![1] = DevWriteAll(@, ws)]
    /\ UNCHANGED <<variant, p_pc, p_clk, p_max, p_ret, phy, hwLatch, cntVars,
                   lifeVars, evtVars>>

NextMode == ResetCall

SpecMode == InitMode /\ [][NextMode]_vars

\* ------------------------------------------------------------------------
\* SpecPhy: the operations of the SAMA7G5 USB PHY (phy-sama7g5-usb.c) on
\* the reset controller's GRSTR and on the SFR's UTMI registers
\* ------------------------------------------------------------------------
\* A register is the set of its bits that are 1; a mask is a set of bits.
\* AT91_GRSTR_USB_RSTn == BIT(n + 3)
AT91_GRSTR_USB_RST1 == {4}
AT91_GRSTR_USB_RST2 == {5}
AT91_GRSTR_USB_RST3 == {6}
GrstrUsbBits ==
    AT91_GRSTR_USB_RST1 \cup AT91_GRSTR_USB_RST2 \cup AT91_GRSTR_USB_RST3

SAMA7G5_SFR_UTMI_RX_VBUS == {"RX_VBUS"}
SAMA7G5_SFR_UTMI_RX_TXPREEMPAMPTUNE_1X == {"TXPREEMPAMPTUNE_1X"}
SfrUtmiBits ==
    SAMA7G5_SFR_UTMI_RX_VBUS \cup SAMA7G5_SFR_UTMI_RX_TXPREEMPAMPTUNE_1X
SfrUtmiRegs == {"UTMI0R0", "UTMI0R1", "UTMI0R2"}

\* regmap_update_bits(map, reg, mask, val): the new value of the register.
regmap_update_bits(old, mask, val) == (old \ mask) \cup (val \cap mask)

\* Values of the "reg" property (u32; three ports exist) and of enum
\* phy_mode the USB controllers pass.
PhyPorts == 0..3
PhyModes == {"PHY_MODE_INVALID", "PHY_MODE_USB_HOST", "PHY_MODE_USB_DEVICE"}

\* switch (sama7g5_phy->port) of set_mode: the UTMI register of a port.
set_mode_reg(port) ==
    CASE port = 0 -> "UTMI0R0"
      [] port = 1 -> "UTMI0R1"
      [] port = 2 -> "UTMI0R2"
      [] OTHER -> "none"

\* switch (sama7g5_phy->port) of init: the UTMI register it updates.
init_reg(port) ==
    CASE port = 0 -> "UTMI0R0"
      [] port = 1 -> "UTMI0R1"
      [] port = 2 -> "UTMI0R1"
      [] OTHER -> "none"

\* switch (sama7g5_phy->port) of power_on / power_off: the reset bit.
port_rst(port) ==
    CASE port = 0 -> AT91_GRSTR_USB_RST1
      [] port = 1 -> AT91_GRSTR_USB_RST2
      [] port = 2 -> AT91_GRSTR_USB_RST3
      [] OTHER -> {}

\* After sama7g5_usb_phy_probe returned 0: rstc and sfr are looked up, port
\* is read, mode is 0 (devm_kzalloc); the registers hold any value.
InitPhy ==
    /\ variant = "mchp"
    /\ p_pc = "off" /\ p_clk = 0 /\ p_max = 0 /\ p_ret = 0 /\ r_call = <<>>
    /\ \E port \in PhyPorts, g \in SUBSET GrstrUsbBits, u \in SUBSET SfrUtmiBits :
          phy = [port |-> port, mode |-> "PHY_MODE_INVALID", rstc |-> TRUE,
                 grstr |-> g, sfr |-> [r \in SfrUtmiRegs |-> u],
                 op |-> "none", ret |-> "OK", wr |-> <<>>, prev_op |-> "none",
                 grstr0 |-> g, grstr00 |-> g,
                 sfr0 |-> [r \in SfrUtmiRegs |-> u]]
    /\ dev = [n \in Nodes |-> DevResetState]
    /\ hwLatch = FALSE
    /\ CntOff
    /\ LifeOff
    /\ EvtOff

\* One operation of phy_ops has run: its result, the registers it leaves,
\* the registers it wrote (in order) and the mode it leaves.
PhyStep(op, ret, g, u, wr, mode) ==
    /\ phy' = [phy EXCEPT !.op = op, !.ret = ret, !.wr = wr, !.mode = mode,
                          !.prev_op = phy.op,
                          !.grstr00 = phy.grstr0, !.grstr0 = phy.grstr,
                          !.sfr0 = phy.sfr, !.grstr = g, !.sfr = u]
    /\ UNCHANGED <<variant, p_pc, p_clk, p_max, p_ret, r_call, dev, hwLatch,
                   cntVars, lifeVars, evtVars>>

\* sama7g5_usb_phy_set_mode(phy, mode, submode)
PhySetMode ==
    /\ phy # <<>>
    /\ \E mode \in PhyModes, submode \in {0, 1} :
        LET stored == IF mode # "PHY_MODE_INVALID" THEN mode
                      ELSE "PHY_MODE_INVALID"
            val == IF submode # 0 THEN SAMA7G5_SFR_UTMI_RX_VBUS ELSE {}
            reg == set_mode_reg(phy.port)
        IN  IF mode = "PHY_MODE_USB_DEVICE"
            THEN IF reg # "none"
                 THEN PhyStep("set_mode", "OK", phy.grstr,
                              [phy.sfr EXCEPT ![reg] = regmap_update_bits(
                                  @, SAMA7G5_SFR_UTMI_RX_VBUS, val)],
                              <<  <<"sfr", reg>>  >>, stored)
                 ELSE PhyStep("set_mode", "ENODEV", phy.grstr, phy.sfr,
                              <<>>, stored)
            ELSE PhyStep("set_mode", "OK", phy.grstr, phy.sfr, <<>>, stored)

\* sama7g5_usb_phy_init(phy)
PhyInit ==
    /\ phy # <<>>
    /\ LET reg == init_reg(phy.port)
       IN  IF reg # "none"
           THEN PhyStep("init", "OK", phy.grstr,
                        [phy.sfr EXCEPT ![reg] = regmap_update_bits(
                            @, SAMA7G5_SFR_UTMI_RX_TXPREEMPAMPTUNE_1X,
                            SAMA7G5_SFR_UTMI_RX_TXPREEMPAMPTUNE_1X)],
                        <<  <<"sfr", reg>>  >>, phy.mode)
           ELSE PhyStep("init", "ENODEV", phy.grstr, phy.sfr, <<>>, phy.mode)

\* sama7g5_phy_power_on(phy)
PhyPowerOn ==
    /\ phy # <<>>
    /\ IF ~phy.rstc
       THEN PhyStep("power_on", "ENODEV", phy.grstr, phy.sfr, <<>>, phy.mode)
       ELSE LET host == phy.mode = "PHY_MODE_USB_HOST"
                g1 == IF host
                      THEN regmap_update_bits(phy.grstr, AT91_GRSTR_USB_RST1, {})
                      ELSE phy.grstr
                w1 == IF host THEN <<  <<"rstc", "GRSTR">>  >> ELSE <<>>
            IN  IF phy.port \in 0..2
                THEN PhyStep("power_on", "OK",
                             regmap_update_bits(g1, port_rst(phy.port), {}),
                             phy.sfr, w1 \o <<  <<"rstc", "GRSTR">>  >>,
                             phy.mode)
                ELSE PhyStep("power_on", "ENODEV", g1, phy.sfr, w1, phy.mode)

\* sama7g5_phy_power_off(phy)
PhyPowerOff ==
    /\ phy # <<>>
    /\ IF ~phy.rstc
       THEN PhyStep("power_off", "ENODEV", phy.grstr, phy.sfr, <<>>, phy.mode)
       ELSE IF phy.port \in 0..2
       THEN PhyStep("power_off", "OK",
                    regmap_update_bits(phy.grstr, port_rst(phy.port),
                                       port_rst(phy.port)),
                    phy.sfr, <<  <<"rstc", "GRSTR">>  >>, phy.mode)
       ELSE PhyStep("power_off", "ENODEV", phy.grstr, phy.sfr, <<>>, phy.mode)

NextPhy == PhySetMode \/ PhyInit \/ PhyPowerOn \/ PhyPowerOff

SpecPhy == InitPhy /\ [][NextPhy]_vars

\* ------------------------------------------------------------------------
\* Claims on the prescaler solver (SpecPres)
\* ------------------------------------------------------------------------
\* d is the first divider of 1..16 whose rate is within max_rate, or 16.
PresBoundMinimal(clk_rate, max_rate, d) ==
    /\ d \in 1..16
    /\ (clk_rate \div d <= max_rate \/ d = 16)
    /\ \A d2 \in 1..(d - 1) : ~(clk_rate \div d2 <= max_rate)

\* C1: for clk_rate >= max_rate > 0, pit64_pres_compute returns a divider d
\* in 1..16 with clk_rate / d <= max_rate or d = 16, and no smaller divider of
\* 1..16 meets the bound.
C1_PresBoundMinimal ==
    (p_pc = "out" /\ variant = "at91" /\ p_clk >= p_max /\ p_max > 0)
        => PresBoundMinimal(p_clk, p_max, p_ret)

\* ------------------------------------------------------------------------
\* Claims on the register protocol (SpecCounter)
\* ------------------------------------------------------------------------
\* The last two completed reads lie within one 2^64 period of the counter.
SameEpoch == c_prev_t1 \div U64Mod = c_t2 \div U64Mod

TwoReadsDone == c_pc = "idle" /\ c_reads >= 2

C6_RoundTrip == c_since = "read" => c_ret = c_wr

\* C6 amended: set_period(v) leaves v >> 32 in MSB_PR and v & LSBMASK in
\* LSB_PR, which recombine to v; get_period reads the timer value registers,
\* so with no device increment it returns the count, whatever was written.
C6_PeriodSplit ==
    (c_since \in {"written", "read"}) =>
        /\ DevRead(dev[1], "MSB_PR") * HalfMod + DevRead(dev[1], "LSB_PR") = c_wr
        /\ DevRead(dev[1], "MSB_PR") < HalfMod
        /\ DevRead(dev[1], "LSB_PR") < HalfMod
        /\ (c_since = "read" => c_ret = dev[1].cnt)

\* A value with a non-zero high half written, then a read that returns the
\* count instead.
C6_Witness == c_since = "read" /\ c_wr >= HalfMod /\ c_ret # c_wr

\* ------------------------------------------------------------------------
\* Claims on instantiation (Spec)
\* ------------------------------------------------------------------------
Returned == l_pc = "returned"
Succeeded == Returned /\ l_ret = "OK"
Failed == Returned /\ l_ret # "OK"

\* The target rate of the mode being instantiated.
TargetRate == IF l_mode = "CLKSRC" THEN MCHP_PIT64_CS_RATE ELSE MCHP_PIT64_CE_RATE

\* The prescaler field of a mode word.
PresField(mr) == (mr \div PRES_SHIFT) % PRES_FIELD

\* C2: in the current variant the divider the search tested (index + 1) is
\* the divider stored in the TimerCore, the one the registered rate is
\* computed with and the one the mode register encodes (as divider - 1); the
\* rate is then within the target unless clamped, and 32 MHz gives divider 13
\* and 2,461,538 Hz.  Stated for input rates above the target: the rates at or
\* below it are the case of C3.
C2_IndexConventionConsistent ==
    (Succeeded /\ variant = "mchp" /\ heap[l_inst].in_rate > TargetRate) =>
        LET cd == heap[l_inst]
            tested == mchp_pit64_pres_compute(cd.in_rate, TargetRate) + 1
        IN  /\ cd.pres = tested
            /\ cd.reg_hz = cd.in_rate \div tested
            /\ (l_mode = "CLKSRC" => PresField(dev[cd.base].mr) = tested - 1)
            /\ (cd.reg_hz <= TargetRate \/ tested = MCHP_PRES_MAX)
            /\ (cd.in_rate = 32000000 => cd.pres = 13 /\ cd.reg_hz = 2461538)

\* C3: once computed, the divider stored in a TimerCore is in 1..16, for any
\* positive input rate, in either mode and variant.
C3_DividerInRange ==
    \A i \in InstIds :
        (heap[i].alloc /\ heap[i].in_rate > 0) => heap[i].pres \in 1..16

\* C7: a reset call writes, in this order and nothing else: software reset to
\* CR, the merged mode word to MR, the reload high half, the reload low
\* half, the period interrupt enable iff irq_ena, the start command to CR.
C7_ResetOrder ==
    last_reset # <<>> =>
        LET pres == last_reset[1]
            cycles == last_reset[2]
            mode == last_reset[3]
            irq_ena == last_reset[4]
            n == wlog[1][1]
            last == Len(wlog)
        IN  /\ last = (IF irq_ena THEN 6 ELSE 5)
            /\ \A k \in 1..last : wlog[k][1] = n
            /\ wlog[1] = <<n, "CR", CR_SWRST>>
            /\ wlog[2][2] = "MR"
            /\ wlog[2][3] % PRES_SHIFT = mode
            /\ PresField(wlog[2][3]) = (pres - 1) % PRES_FIELD
            /\ wlog[2][3] < PRES_SHIFT * PRES_FIELD
            /\ wlog[3] = <<n, "MSB_PR", cycles \div HalfMod>>
            /\ wlog[4] = <<n, "LSB_PR", cycles % HalfMod>>
            /\ (irq_ena => wlog[5] = <<n, "IER", IER_PERIOD>>)
            /\ (~irq_ena => \A k \in 1..last : wlog[k][2] # "IER")
            /\ wlog[last] = <<n, "CR", CR_START>>

\* A single-shot reset with the interrupt enabled and a divider above 1 has
\* been issued.
C7_Witness ==
    /\ last_reset # <<>>
    /\ last_reset[4] /\ last_reset[3] = MR_SMOD /\ last_reset[1] > 1
    /\ Len(wlog) = 6

\* The error kinds of the taxonomy, by the code returned.
ErrKind(ret) ==
    CASE ret = "ENXIO" -> "ResourceUnavailable"
      [] ret = "EBUSY" -> "AlreadyActive"
      [] ret = "EINVAL" -> "InvalidMode"
      [] ret = "ENOMEM" -> "AllocationFailure"
      [] OTHER -> "DependencyUnavailable"

\* C8: a second instantiation of a mode whose slot is taken fails with
\* AlreadyActive, a kind of its own, writes no register, releases the
\* mapping and clock reference it took and leaves the registry, the
\* instances, their clocks and the devices as they were.
C8_SecondInstantiate ==
    (Returned /\ l_fail = "active") =>
        /\ ErrKind(l_ret) = "AlreadyActive"
        /\ wlog = <<>>
        /\ Counters(res) = snap.res
        /\ data_csd = snap.csd /\ data_ced = snap.ced
        /\ heap = snap.heap
        /\ dev = snap.dev

\* Every release in the log undoes an earlier acquisition of the call, and
\* every acquisition is undone: held counts what is acquired and not yet
\* released as the log is read.
RECURSIVE BalancedFrom(_, _)
BalancedFrom(log, held) ==
    IF log = <<>>
    THEN \A kind \in ResKinds, n \in Nodes : held[kind][n] = 0
    ELSE LET e == Head(log)
         IN  IF e[1] = "acq"
             THEN BalancedFrom(Tail(log), [held EXCEPT ![e[2]][e[3]] = @ + 1])
             ELSE /\ held[e[2]][e[3]] > 0
                  /\ BalancedFrom(Tail(log), [held EXCEPT ![e[2]][e[3]] = @ - 1])
Balanced(log) ==
    BalancedFrom(log, [kind \in ResKinds |-> [n \in Nodes |-> 0]])

\* C9: when instantiate fails, at whatever step, everything the call
\* acquired has been released, nothing else has, and the registry does not
\* hold the failed instance.
C9_FailedInstantiateRollsBack ==
    Failed =>
        /\ Counters(res) = snap.res
        /\ res.irq_dev = snap.irq_dev
        /\ Balanced(res.log)
        /\ heap = snap.heap
        /\ data_csd = snap.csd /\ data_ced = snap.ced
        /\ (l_inst # 0 => ~heap[l_inst].alloc)

\* A ClockEvent instantiate that failed at request_irq, with mapping, clock,
\* irq mapping, memory and clock enable taken and given back.
C9_Witness ==
    /\ Failed /\ l_fail = "request_irq"
    /\ Len(res.log) = 10

\* C10: a non-empty registry slot refers only to an instance whose
\* construction has fully succeeded (dt_init has returned 0 for it), in the
\* intermediate states of an instantiate call too.
C10_RegistryOnlyBuilt ==
    /\ (data_csd # 0 => heap[data_csd].built)
    /\ (data_ced # 0 => heap[data_ced].built)

\* ------------------------------------------------------------------------
\* Claims on the clock event device (SpecEvt)
\* ------------------------------------------------------------------------
\* C11: the interrupt handler run with a dev_id that is not the instance in
\* the registry's ClockEvent slot (the slot may be empty) returns IRQ_NONE,
\* calls no event handler and does not read the status register, whether or
\* not the period bit of that device is set.
C11_NotOwnerNotMine ==
    (irq_h # <<>> /\ irq_h.ced # irq_h.dev_id) =>
        /\ irq_h.ret = "IRQ_NONE"
        /\ irq_h.events = 0
        /\ irq_h.reads = <<>>

\* The handler ran for a device whose period bit was set while the slot was
\* still empty.
C11_Witness ==
    /\ irq_h # <<>>
    /\ irq_h.ced = 0 /\ irq_h.dev_id # 0
    /\ irq_h.isr = ISR_PERIOD

\* C12: for the instance in the registry's ClockEvent slot, the handler
\* returns IRQ_HANDLED and calls the event handler exactly once if the
\* status value it read has the period bit set, and returns IRQ_NONE without
\* calling it otherwise.
C12_OwnerHandledIffBit ==
    (irq_h # <<>> /\ irq_h.ced = irq_h.dev_id) =>
        IF HasBit(irq_h.isr, ISR_PERIOD)
        THEN irq_h.ret = "IRQ_HANDLED" /\ irq_h.events = 1
        ELSE irq_h.ret = "IRQ_NONE" /\ irq_h.events = 0

\* The block and the stored TimerCore of the registered clock event device.
EvtDev == dev[heap[data_ced].base]
EvtWas == pre.dev[heap[data_ced].base]
Reload(d) == d.pr_msb * HalfMod + d.pr_lsb
ModeFlags(mr) == mr % PRES_SHIFT
Ran(name) == h # <<>> /\ h.name = name
ArmedStates == {"periodic", "oneshot"}

\* C13: for a registered clock event device in Periodic or OneShot state,
\* the registered suspend callback followed by the registered resume
\* callback leaves the state the framework records unchanged and the device
\* armed as before the suspend: clock enabled, continuous mode for Periodic
\* and single-shot for OneShot, period interrupt enabled, started, and in
\* Periodic the reload it had, round-to-nearest(rate / HZ) (25,000 for
\* 2,500,000 Hz at 100 Hz).
C13_SuspendResumeRestores ==
    (Ran("resume") /\ pre.state \in ArmedStates) =>
        /\ clkevt_state = pre.state
        /\ res.en[heap[data_ced].clk] = pre.en[heap[data_ced].clk]
        /\ res.en[heap[data_ced].clk] > 0
        /\ EvtDev.started
        /\ EvtDev.imr = IER_PERIOD
        /\ ModeFlags(EvtDev.mr) =
               (IF pre.state = "periodic" THEN MR_CONT ELSE MR_SMOD)
        /\ (pre.state = "periodic" =>
               /\ Reload(EvtDev) = Reload(EvtWas)
               /\ Reload(EvtDev) = DIV_ROUND_CLOSEST(heap[data_ced].reg_hz, HZ))

\* C14: the registered suspend callback, run in Periodic or OneShot state,
\* writes the software reset and nothing else (no reload, no start) and
\* then disables the clock; the registered resume callback is the one that
\* enables the clock again and re-arms the device through reset.
C14_SuspendDisarms ==
    /\ (Ran("suspend") /\ pre.state \in ArmedStates) =>
          /\ wlog = <<  <<heap[data_ced].base, "CR", CR_SWRST>>  >>
          /\ ~EvtDev.started
          /\ res.en[heap[data_ced].clk] = pre.en[heap[data_ced].clk] - 1
    /\ (Ran("resume") /\ pre.state \in ArmedStates) =>
          \/ wlog = <<>>
          \/ /\ last_reset # <<>>
             /\ last_reset[4]
             /\ EvtDev.started

\* C15: with the device registered, set_state_shutdown, set_state_periodic
\* and set_state_oneshot can each be called in each of the states Shutdown,
\* Periodic and OneShot, return 0 and leave the device in the state asked
\* for, one of the three; Periodic and OneShot are entered from each other
\* without a shutdown in between.
C15_SetStateTotal ==
    /\ clkevt_state \in {"detached", "shutdown", "periodic", "oneshot"}
    /\ (ClkevtReady =>
          /\ clkevt_state \in {"shutdown", "periodic", "oneshot"}
          /\ ENABLED ClkevtShutdown
          /\ ENABLED ClkevtSetPeriodic
          /\ ENABLED ClkevtSetOneshot)
    /\ \A name \in {"shutdown", "periodic", "oneshot"} :
          Ran(name) =>
              /\ h.ret = 0
              /\ clkevt_state = name
              /\ pre.state \in {"shutdown", "periodic", "oneshot"}

\* OneShot has been entered directly from Periodic.
C15_Witness == Ran("oneshot") /\ pre.state = "periodic" /\ pre.name = "periodic"

\* C16: set_state_shutdown writes the software reset to CR and nothing else
\* (no mode, reload, interrupt enable or start) and leaves the stored
\* divider and reload alone; called right after a shutdown (so in Shutdown
\* state) it leaves devices, clocks and state as the first call left them.
C16_ShutdownIdempotent ==
    Ran("shutdown") =>
        /\ wlog = <<  <<heap[data_ced].base, "CR", CR_SWRST>>  >>
        /\ heap = pre.heap
        /\ clkevt_state = "shutdown"
        /\ (pre.name = "shutdown" =>
               /\ pre.state = "shutdown"
               /\ dev = pre.dev
               /\ res.en = pre.en)

\* Shutdown has been called twice in a row.
C16_Witness == Ran("shutdown") /\ pre.name = "shutdown"

\* C17: set_state_periodic, from any state and whatever set_next_event
\* wrote before, programs the device through reset with continuous mode
\* and the period interrupt enabled, and with the reload
\* round-to-nearest(effective_rate / HZ), effective_rate being the input
\* rate divided by the divider the mode register selects.
C17_PeriodicReload ==
    Ran("periodic") =>
        /\ last_reset # <<>>
        /\ last_reset[3] = MR_CONT /\ last_reset[4]
        /\ ModeFlags(EvtDev.mr) = MR_CONT
        /\ EvtDev.imr = IER_PERIOD
        /\ EvtDev.started
        /\ Reload(EvtDev) =
               DIV_ROUND_CLOSEST(heap[data_ced].in_rate
                                     \div (PresField(EvtDev.mr) + 1), HZ)

\* C18: set_next_event(evt) writes the high half of evt to MSB_PR, the low
\* half to LSB_PR and then the start command to CR, and nothing else (no
\* reset, no mode word, no interrupt enable); the state the framework
\* records and the stored reload and divider are unchanged.
C18_NextEventFrame ==
    Ran("next_event") =>
        /\ wlog = <<  <<heap[data_ced].base, "MSB_PR", h.evt \div HalfMod>>,
                      <<heap[data_ced].base, "LSB_PR", h.evt % HalfMod>>,
                      <<heap[data_ced].base, "CR", CR_START>>  >>
        /\ heap = pre.heap
        /\ clkevt_state = pre.state
        /\ EvtDev.mr = EvtWas.mr
        /\ EvtDev.imr = EvtWas.imr
        /\ Reload(EvtDev) = h.evt
        /\ EvtDev.started

\* A deadline wider than one half has been programmed in OneShot state.
C18_Witness ==
    Ran("next_event") /\ pre.state = "oneshot" /\ h.evt > LSBMASK

\* C19: set_next_event called while the device is not in OneShot state
\* (Shutdown or Periodic) returns an error or does nothing: it neither
\* writes the reload registers nor starts the device.
C19_NextEventWrongState ==
    (Ran("next_event") /\ pre.state # "oneshot") =>
        \/ h.ret # 0
        \/ wlog = <<>> /\ dev = pre.dev

\* ------------------------------------------------------------------------
\* Claims on the clock source constructor (Spec)
\* ------------------------------------------------------------------------
\* C20: a ClockSource instantiate that succeeds has programmed the device
\* with the reload 2^64 - 1, continuous mode and the computed prescaler, has
\* not written the interrupt enable register, and has registered the time
\* source with a 64 bit mask and with the rate input_rate / divider, the
\* divider being the one the mode register written selects.
C20_ClockSourceProgrammed ==
    (Succeeded /\ l_mode = "CLKSRC") =>
        LET cd == heap[l_inst]
            n == cd.base
        IN  /\ cd.cycles = ULLONG_MAX
            /\ Len(wlog) = 5
            /\ wlog[2][2] = "MR"
            /\ ModeFlags(wlog[2][3]) = MR_CONT
            /\ PresField(wlog[2][3]) = (cd.pres - 1) % PRES_FIELD
            /\ wlog[3] = <<n, "MSB_PR", ULLONG_MAX \div HalfMod>>
            /\ wlog[4] = <<n, "LSB_PR", ULLONG_MAX % HalfMod>>
            /\ \A k \in 1..Len(wlog) : wlog[k][2] # "IER"
            /\ cd.registered
            /\ cd.reg_bits = 64
            /\ cd.reg_hz = cd.in_rate \div (PresField(wlog[2][3]) + 1)

\* ------------------------------------------------------------------------
\* Claims on the order of construction and teardown (Spec)
\* ------------------------------------------------------------------------
\* The instance of the call in progress is in the slot of its mode.
Installed ==
    /\ l_inst # 0
    /\ \/ l_mode = "CLKSRC" /\ data_csd = l_inst
       \/ l_mode = "CLKEVT" /\ data_ced = l_inst

\* C21: in both modes, when instantiate installs the instance in the
\* registry slot, the clock has been enabled, the divider and the reload
\* have been computed and reset has been called on the device; a ClockEvent
\* that has just been registered has had the reset sequence written.
C21_ResetBeforeInstall ==
    Installed =>
        /\ res.en[heap[l_inst].clk] > 0
        /\ heap[l_inst].in_rate > 0
        /\ last_reset # <<>>
        /\ last_reset[1] = heap[l_inst].pres
        /\ last_reset[2] = heap[l_inst].cycles
        /\ wlog # <<>>
        /\ wlog[1] = <<heap[l_inst].base, "CR", CR_SWRST>>

\* Position of the release of a kind in the log of the call, 0: not released.
RelAt(kind) ==
    IF \E k \in 1..Len(res.log) : res.log[k] = <<"rel", kind, l_node>>
    THEN CHOOSE k \in 1..Len(res.log) : res.log[k] = <<"rel", kind, l_node>>
    ELSE 0
AcqAt(kind) ==
    IF \E k \in 1..Len(res.log) : res.log[k] = <<"acq", kind, l_node>>
    THEN CHOOSE k \in 1..Len(res.log) : res.log[k] = <<"acq", kind, l_node>>
    ELSE 0

\* C22: when instantiate fails at the clock enable or later, the teardown
\* disables the clock first (if it was enabled), then frees the interrupt
\* (if it was requested), then unmaps the register window, and releases the
\* memory of the instance last.
C22_TeardownOrder ==
    (Failed /\ l_fail \in {"clk_enable", "request_irq", "register"}) =>
        /\ RelAt("map") # 0 /\ RelAt("mem") # 0
        /\ RelAt("mem") = Len(res.log)
        /\ RelAt("map") < RelAt("mem")
        /\ (AcqAt("en") # 0 =>
               /\ RelAt("en") # 0
               /\ \A k \in 1..Len(res.log) :
                     res.log[k][1] = "rel" => RelAt("en") <= k)
        /\ (AcqAt("irq") # 0 =>
               /\ RelAt("en") < RelAt("irq")
               /\ RelAt("irq") < RelAt("map"))

\* Instances of a mode that are registered with the framework.
RegisteredOf(kind) ==
    {i \in InstIds : heap[i].kind = kind /\ heap[i].registered}

\* C23: over any sequence of instantiate calls, the registry holds at most
\* one ClockSource and at most one ClockEvent instance; a slot populated
\* when a call starts still holds the same, unchanged instance at every
\* later step of the call, whatever the call's outcome, and a call of one
\* mode leaves the slot of the other mode as it was.
C23_RegistrySingleWriter ==
    /\ Cardinality(RegisteredOf("clksrc")) <= 1
    /\ Cardinality(RegisteredOf("clkevt")) <= 1
    /\ snap # <<>> =>
        /\ snap.csd # 0 =>
              data_csd = snap.csd /\ heap[data_csd] = snap.heap[data_csd]
        /\ snap.ced # 0 =>
              data_ced = snap.ced /\ heap[data_ced] = snap.heap[data_ced]
        /\ l_mode = "CLKSRC" => data_ced = snap.ced
        /\ l_mode = "CLKEVT" => data_csd = snap.csd

\* A third call, refused because its slot is populated, with both slots held.
C23_Witness ==
    /\ Returned /\ l_fail = "active" /\ calls = MaxCalls
    /\ snap.csd # 0 /\ snap.ced # 0
    /\ data_csd = snap.csd /\ data_ced = snap.ced

\* The reload the device holds after the logged writes ws, when it takes
\* the pair (high half register, value written) at each write of the low
\* half: msb is the content of the high half register, lat the reload held.
RECURSIVE Latch(_, _, _)
Latch(msb, lat, ws) ==
    IF ws = <<>> THEN lat
    ELSE LET w == Head(ws)
         IN  IF w[2] = "CR" /\ HasBit(w[3], CR_SWRST)
                 THEN Latch(0, 0, Tail(ws))
             ELSE IF w[2] = "MSB_PR" THEN Latch(w[3], lat, Tail(ws))
             ELSE IF w[2] = "LSB_PR"
                 THEN Latch(msb, msb * HalfMod + w[3], Tail(ws))
             ELSE Latch(msb, lat, Tail(ws))

WritesOf(reg) == {k \in 1..Len(wlog) : wlog[k][2] = reg}

\* C24: every callback that programs a reload (the reset of periodic,
\* oneshot and resume; set_next_event) writes the high half register
\* before the low half register, and the reload the device latches at the
\* write of the low half is the full value the caller passed, whatever the
\* registers held before.
C24_ReloadLatchedWhole ==
    (h # <<>> /\ WritesOf("LSB_PR") # {}) =>
        /\ Cardinality(WritesOf("MSB_PR")) = 1
        /\ Cardinality(WritesOf("LSB_PR")) = 1
        /\ \A i \in WritesOf("MSB_PR") : \A j \in WritesOf("LSB_PR") : i < j
        /\ Latch(pre.dev[heap[data_ced].base].pr_msb, 0, wlog)
             = IF h.name = "next_event" THEN h.evt ELSE heap[data_ced].cycles

\* set_next_event wrote a reload whose high half differs from the one the
\* registers held.
C24_Witness ==
    /\ h # <<>> /\ h.name = "next_event" /\ h.evt = LSBMASK
    /\ pre.dev[heap[data_ced].base].pr_msb # 0
    /\ WritesOf("LSB_PR") # {}

\* C25: for every stored divider in 1..16 and either mode flag, the mode
\* word reset writes has its prescaler field (bits 11..8) equal to
\* divider - 1 and its other bits equal to the flags passed in: the word is
\* exactly flags + (divider - 1) * 2^8.
C25_ModeWordFields ==
    (r_call # <<>> /\ r_call.pc = "out") =>
        /\ PresField(r_call.mr) = r_call.pres - 1
        /\ ModeFlags(r_call.mr) = r_call.mode
        /\ r_call.mr \div (PRES_SHIFT * PRES_FIELD) = 0
        /\ dev[1].mr = r_call.mr

\* The largest divider with the single-shot flag.
C25_Witness ==
    /\ r_call # <<>> /\ r_call.pc = "out"
    /\ r_call.pres = MCHP_PRES_MAX /\ r_call.mode = MR_SMOD
    /\ PresField(r_call.mr) = PRES_FIELD - 1

\* The clock event device is registered and no dt_init call is in progress.
LiveClkevt == l_pc = "idle" /\ data_ced # 0 /\ heap[data_ced].registered

\* C26: for a registered clock event device, over the framework's suspend
\* and resume calls the enable count of its clock is 1 while the device is
\* not suspended and 0 while it is suspended.
C26_EnableCountBinary ==
    LiveClkevt =>
        res.en[heap[data_ced].clk] = (IF suspended THEN 0 ELSE 1)

\* C27: when the suspend found the device in Shutdown state, the resume
\* that follows leaves the device stopped with the period interrupt
\* disabled: it neither starts the device nor enables the interrupt.
C27_ResumeKeepsShutdown ==
    (Ran("resume") /\ pre.state = "shutdown") =>
        /\ ~EvtDev.started
        /\ EvtDev.imr = 0
        /\ \A k \in 1..Len(wlog) :
              /\ wlog[k][2] # "IER"
              /\ ~(wlog[k][2] = "CR" /\ HasBit(wlog[k][3], CR_START))

\* C28: an interrupt taken once the handler is requested, at any point of
\* the rest of the ClockEvent constructor or after it, is handled safely:
\* the handler returns IRQ_NONE or IRQ_HANDLED, and it calls the event
\* handler only of an instance whose clock event device pointer is set and
\* whose device is registered; it never calls through a pointer that is
\* not set yet.
C28_InterruptDuringInit ==
    irq_h # <<>> =>
        /\ irq_h.ret \in {"IRQ_NONE", "IRQ_HANDLED"}
        /\ l_pc # "crashed"
        /\ irq_h.events = 1 =>
              /\ heap[irq_h.dev_id].dev_set
              /\ heap[irq_h.dev_id].registered

\* The divider the device applies for a stored divider: the prescaler field
\* reset encodes, plus one.
DeviceDivider(pres) == PresField(PIT64_PRESCALER(pres - 1)) + 1

\* C29: the reload stored for the clock event device is the one the
\* constructor computed, round-to-nearest of the effective rate (input rate
\* over the divider) over HZ, and no callback changes it: set_state_oneshot
\* and resume program that stored reload, and the delta of set_next_event
\* reaches the period registers only.
C29_StoredReloadFixed ==
    (data_ced # 0 /\ heap[data_ced].alloc) =>
        LET cd == heap[data_ced]
        IN  /\ cd.cycles = DIV_ROUND_CLOSEST(
                               cd.in_rate \div DeviceDivider(cd.pres), HZ)
            /\ h # <<>> => cd.cycles = pre.heap[data_ced].cycles
            /\ Ran("oneshot") => Reload(EvtDev) = cd.cycles
            /\ (Ran("resume") /\ WritesOf("LSB_PR") # {}) =>
                   Reload(EvtDev) = cd.cycles
            /\ Ran("next_event") => Reload(EvtDev) = h.evt

\* The last callback run was the function pit64_clkevt_resume and its
\* clk_prepare_enable failed.
ResumeFailed ==
    /\ h # <<>> /\ h.name \in {"suspend", "resume"}
    /\ h.fn = "pit64_clkevt_resume" /\ ~h.clk_ok

\* C30: when clk_prepare_enable fails in the resume function, the function
\* has written no register, the state the framework records is the one
\* recorded before the suspend, and the device is in its reset condition:
\* stopped, with the period interrupt disabled.
C30_ResumeFailureNoAccess ==
    ResumeFailed =>
        /\ wlog = <<>>
        /\ clkevt_state = pre.state
        /\ ~EvtDev.started
        /\ EvtDev.imr = 0

\* ------------------------------------------------------------------------
\* Claims on the USB PHY (SpecPhy)
\* ------------------------------------------------------------------------
\* C31: init on port 0, 1 or 2 returns 0, sets TXPREEMPAMPTUNE_1X in the
\* UTMI register of that port, the one set_mode updates for the port, and
\* writes no other register; on any other port it returns -ENODEV and
\* writes nothing.
C31_InitOwnPortRegister ==
    (phy # <<>> /\ phy.op = "init") =>
        IF phy.port \in 0..2
        THEN /\ phy.ret = "OK"
             /\ phy.wr = <<  <<"sfr", set_mode_reg(phy.port)>>  >>
             /\ \A r \in SfrUtmiRegs :
                   phy.sfr[r] =
                       IF r = set_mode_reg(phy.port)
                       THEN phy.sfr0[r] \cup SAMA7G5_SFR_UTMI_RX_TXPREEMPAMPTUNE_1X
                       ELSE phy.sfr0[r]
             /\ phy.grstr = phy.grstr0
        ELSE /\ phy.ret = "ENODEV"
             /\ phy.wr = <<>>
             /\ phy.sfr = phy.sfr0 /\ phy.grstr = phy.grstr0

\* C32: for a valid port and any mode, host mode included, with the three
\* USB reset bits asserted beforehand, power_on followed by power_off
\* leaves GRSTR as it was before power_on: every reset bit power_on
\* de-asserted is asserted again.
C32_PowerRoundTrip ==
    (/\ phy # <<>>
     /\ phy.op = "power_off" /\ phy.prev_op = "power_on"
     /\ phy.port \in 0..2
     /\ GrstrUsbBits \subseteq phy.grstr00) =>
        /\ phy.ret = "OK"
        /\ phy.grstr = phy.grstr00

====
